---------------------------- MODULE Spec2Model ----------------------------
(***************************************************************************)
(* A model of comfy-table's src/cell.rs: the Cell value (content split     *)
(* into lines, optional delimiter / alignment / fg / bg, ordered           *)
(* attributes), its consuming builder methods, and the ToCell / ToCells    *)
(* conversion traits.                                                      *)
(*                                                                         *)
(* Text is a sequence of characters.  Option<T> is a sequence of length    *)
(* at most one: None is <<>> and Some(x) is <<x>>.                         *)
(***************************************************************************)
EXTENDS Integers, Sequences, FiniteSets

VARIABLES
    input,      \* the displayable value the current cell was constructed from
    cell,       \* the Cell moved along the fluent chain
    calls,      \* the builder methods applied to cell since construction, in order
    got,        \* Option<String>: what the last get_content() on cell returned
    coll,       \* the collection handed to to_cells
    row,        \* the Vec<Cell> to_cells returned
    pc          \* "collecting" until to_cells consumed coll, then "converted"

vars == <<input, cell, calls, got, coll, row, pc>>

---------------------------------------------------------------------------
(* Bounds of the model *)

\* longest text given to Cell::new
MaxLen == 3
\* most builder calls chained on one cell
MaxCalls == 2
\* longest collection given to to_cells
MaxRow == 3

---------------------------------------------------------------------------
(* Values *)

NL == "\n"

None == <<>>
Some(x) == <<x>>

\* characters of the texts that are enumerated
Chars == {"a", NL}

RECURSIVE TextsOfLen(_)
TextsOfLen(n) ==
    IF n = 0 THEN {<<>>}
    ELSE {Append(t, c) : t \in TextsOfLen(n - 1), c \in Chars}

Texts == UNION {TextsOfLen(n) : n \in 0..MaxLen}

IntInputs == {0, 7, -12}

\* a value of a type T: ToString that is not Cell
StrV(t) == [kind |-> "str", chars |-> t]
IntV(n) == [kind |-> "int", n |-> n]
\* a value of type Cell
CellV(c) == [kind |-> "cell", cell |-> c]

DisplayValues == {StrV(t) : t \in Texts} \cup {IntV(n) : n \in IntInputs}

Delimiters == {"a", "-"}
Alignments == {"Left", "Center", "Right"}
Colors == {"Red", "Blue"}
Attributes == {"Bold", "Italic"}

\* the Vec<Attribute> arguments given to add_attributes
AttrLists == {<<>>, <<"Bold">>, <<"Bold", "Italic">>, <<"Italic", "Italic">>}

---------------------------------------------------------------------------
(* to_string *)

DigitChars == <<"0", "1", "2", "3", "4", "5", "6", "7", "8", "9">>

RECURSIVE FmtNat(_)
FmtNat(n) ==
    IF n < 10 THEN <<DigitChars[n + 1]>>
    ELSE Append(FmtNat(n \div 10), DigitChars[(n % 10) + 1])

FmtInt(n) == IF n < 0 THEN <<"-">> \o FmtNat(-n) ELSE FmtNat(n)

\* T::to_string: a string is copied character by character, an integer is
\* written in decimal
ToString(v) ==
    IF v.kind = "str" THEN [i \in 1..Len(v.chars) |-> v.chars[i]]
    ELSE FmtInt(v.n)

---------------------------------------------------------------------------
(* str::split('\n') and [String]::join("\n") *)

\* Variant: a newline that follows a newline opens no new piece (empty lines
\* are merged away).
SplitStep_skip_empty(pieces, c) ==
    IF c = NL
    THEN IF pieces[Len(pieces)] = <<>> THEN pieces ELSE Append(pieces, <<>>)
    ELSE [pieces EXCEPT ![Len(pieces)] = Append(pieces[Len(pieces)], c)]

\* one step of the split iterator: a newline closes the current piece and
\* opens an empty one, any other character extends the current piece
SplitStep(pieces, c) ==
    IF c = NL THEN Append(pieces, <<>>)
    ELSE [pieces EXCEPT ![Len(pieces)] = Append(pieces[Len(pieces)], c)]

RECURSIVE SplitFrom(_, _, _)
SplitFrom(s, i, pieces) ==
    IF i > Len(s) THEN pieces
    ELSE SplitFrom(s, i + 1, SplitStep(pieces, s[i]))

\* Variant: str::lines() in place of split('\n'), which yields no final
\* empty piece.
Split_lines(s) ==
    LET pieces == SplitFrom(s, 1, << <<>> >>)
    IN  IF pieces[Len(pieces)] = <<>> THEN SubSeq(pieces, 1, Len(pieces) - 1)
        ELSE pieces

Split(s) == SplitFrom(s, 1, << <<>> >>)

RECURSIVE JoinFrom(_, _, _)
JoinFrom(lines, i, acc) ==
    IF i > Len(lines) THEN acc
    ELSE JoinFrom(lines, i + 1, acc \o <<NL>> \o lines[i])

Join(lines) == IF Len(lines) = 0 THEN <<>> ELSE JoinFrom(lines, 2, lines[1])

---------------------------------------------------------------------------
(* impl Cell *)

\* Variant: the delimiter starts as the documented default, ' '.
Cell_new_space_delimiter(v) ==
    [content    |-> Split(ToString(v)),
     delimiter  |-> Some(" "),
     alignment  |-> None,
     fg         |-> None,
     bg         |-> None,
     attributes |-> <<>>]

Cell_new(v) ==
    [content    |-> Split(ToString(v)),
     delimiter  |-> None,
     alignment  |-> None,
     fg         |-> None,
     bg         |-> None,
     attributes |-> <<>>]

get_content(c) == Join(c.content)

\* Variant: a delimiter that occurs in the content is refused.
set_delimiter_checked(c, delimiter) ==
    IF \E k \in 1..Len(c.content) :
          \E j \in 1..Len(c.content[k]) : c.content[k][j] = delimiter
    THEN [error |-> "delimiter occurs in content"]
    ELSE [c EXCEPT !.delimiter = Some(delimiter)]

set_delimiter(c, delimiter) == [c EXCEPT !.delimiter = Some(delimiter)]

\* Variant: an alignment already set is kept (Option::get_or_insert).
set_alignment_keep_first(c, alignment) ==
    IF c.alignment = None THEN [c EXCEPT !.alignment = Some(alignment)] ELSE c

set_alignment(c, alignment) == [c EXCEPT !.alignment = Some(alignment)]

fg(c, color) == [c EXCEPT !.fg = Some(color)]

\* Variant: bg writes the foreground field.
bg_writes_fg(c, color) == [c EXCEPT !.fg = Some(color)]

bg(c, color) == [c EXCEPT !.bg = Some(color)]

\* Variant: an attribute already in the list is not added again.
add_attribute_dedup(c, attribute) ==
    IF \E i \in 1..Len(c.attributes) : c.attributes[i] = attribute THEN c
    ELSE [c EXCEPT !.attributes = Append(c.attributes, attribute)]

\* Vec::push
add_attribute(c, attribute) ==
    [c EXCEPT !.attributes = Append(c.attributes, attribute)]

\* Vec::append
add_attributes(c, attribute) ==
    [c EXCEPT !.attributes = c.attributes \o attribute]

\* impl<T: ToString> From<T> for Cell
From(v) == Cell_new(v)

---------------------------------------------------------------------------
(* ToCell / ToCells *)

\* Variant: the value is formatted with {:?}, which quotes a string.
ToCell_Display_debug(v) ==
    IF v.kind = "str" THEN Cell_new(StrV(<<"\"">> \o ToString(v) \o <<"\"">>))
    ELSE Cell_new(StrV(ToString(v)))

\* impl<T: ToString> ToCell for T
ToCell_Display(v) == Cell_new(StrV(ToString(v)))

\* impl ToCell for Cell
ToCell_Cell(c) == c

\* Variant: the generic impl is applied to a Cell too, through its text.
ToCell_generic(v) ==
    IF v.kind = "cell" THEN Cell_new(StrV(get_content(v.cell)))
    ELSE ToCell_Display(v)

\* item.to_cell(): Cell has no Display, so the impl is chosen by the type
ToCell(v) == IF v.kind = "cell" THEN ToCell_Cell(v.cell) ELSE ToCell_Display(v)

\* into_iter().map(|item| item.to_cell()).collect()
RECURSIVE CollectFrom(_, _, _)
CollectFrom(items, i, out) ==
    IF i > Len(items) THEN out
    ELSE CollectFrom(items, i + 1, Append(out, ToCell(items[i])))

\* Variant: the cells are collected back to front.
ToCells_rev(items) ==
    LET cells == CollectFrom(items, 1, <<>>)
    IN  [i \in 1..Len(cells) |-> cells[Len(cells) + 1 - i]]

ToCells(items) == CollectFrom(items, 1, <<>>)

---------------------------------------------------------------------------
(* The builder chain *)

Call(op, arg) == [op |-> op, arg |-> arg]

Init ==
    /\ input \in DisplayValues
    /\ cell = Cell_new(input)
    /\ calls = <<>>
    /\ got = None
    /\ coll = <<>>
    /\ row = <<>>
    /\ pc = "collecting"

\* No builder method and no get_content has been applied to cell yet.  The
\* constructors below run at the start of a chain only: every state they
\* produce is an initial state, so the guard removes no reachable state.
Fresh == calls = <<>> /\ got = None

\* let cell = Cell::new(v);
New(v) ==
    /\ Fresh
    /\ input' = v
    /\ cell' = Cell_new(v)
    /\ calls' = <<>>
    /\ got' = None
    /\ UNCHANGED <<coll, row, pc>>

\* let cell: Cell = v.into();
FromValue(v) ==
    /\ Fresh
    /\ input' = v
    /\ cell' = From(v)
    /\ calls' = <<>>
    /\ got' = None
    /\ UNCHANGED <<coll, row, pc>>

\* let cell = v.to_cell();  for a displayable v
ConvertValue(v) ==
    /\ Fresh
    /\ input' = v
    /\ cell' = ToCell(v)
    /\ calls' = <<>>
    /\ got' = None
    /\ UNCHANGED <<coll, row, pc>>

\* let cell = cell.to_cell();
ConvertCell ==
    /\ cell' = ToCell(CellV(cell))
    /\ UNCHANGED <<input, calls, got, coll, row, pc>>

GetContent ==
    /\ got' = Some(get_content(cell))
    /\ UNCHANGED <<input, cell, calls, coll, row, pc>>

SetDelimiter(d) ==
    /\ Len(calls) < MaxCalls
    /\ cell' = set_delimiter(cell, d)
    /\ calls' = Append(calls, Call("set_delimiter", d))
    /\ UNCHANGED <<input, got, coll, row, pc>>

SetAlignment(a) ==
    /\ Len(calls) < MaxCalls
    /\ cell' = set_alignment(cell, a)
    /\ calls' = Append(calls, Call("set_alignment", a))
    /\ UNCHANGED <<input, got, coll, row, pc>>

Fg(color) ==
    /\ Len(calls) < MaxCalls
    /\ cell' = fg(cell, color)
    /\ calls' = Append(calls, Call("fg", color))
    /\ UNCHANGED <<input, got, coll, row, pc>>

Bg(color) ==
    /\ Len(calls) < MaxCalls
    /\ cell' = bg(cell, color)
    /\ calls' = Append(calls, Call("bg", color))
    /\ UNCHANGED <<input, got, coll, row, pc>>

AddAttribute(a) ==
    /\ Len(calls) < MaxCalls
    /\ cell' = add_attribute(cell, a)
    /\ calls' = Append(calls, Call("add_attribute", a))
    /\ UNCHANGED <<input, got, coll, row, pc>>

AddAttributes(l) ==
    /\ Len(calls) < MaxCalls
    /\ cell' = add_attributes(cell, l)
    /\ calls' = Append(calls, Call("add_attributes", l))
    /\ UNCHANGED <<input, got, coll, row, pc>>

Next ==
    \/ \E v \in DisplayValues : New(v)
    \/ \E v \in DisplayValues : FromValue(v)
    \/ \E v \in DisplayValues : ConvertValue(v)
    \/ ConvertCell
    \/ GetContent
    \/ \E d \in Delimiters : SetDelimiter(d)
    \/ \E a \in Alignments : SetAlignment(a)
    \/ \E c \in Colors : Fg(c)
    \/ \E c \in Colors : Bg(c)
    \/ \E a \in Attributes : AddAttribute(a)
    \/ \E l \in AttrLists : AddAttributes(l)

Spec == Init /\ [][Next]_vars

---------------------------------------------------------------------------
(* The conversion of a collection *)

\* the items of the collections that are enumerated; a collection has one
\* item type (T::Item), so it holds strings, or integers, or cells
ItemTexts == {<<>>, <<"a">>, <<NL>>, <<"a", NL, "a">>}

ItemInts == {1, 2, 3, -12}

ItemCells ==
    {Cell_new(StrV(<<"a", NL, NL>>)),
     set_alignment(set_delimiter(Cell_new(StrV(<<"a", "a">>)), "a"), "Center"),
     add_attributes(fg(Cell_new(IntV(7)), "Red"), <<"Bold", "Italic">>),
     bg(add_attribute(Cell_new(StrV(<<>>)), "Bold"), "Blue")}

Items ==
    {StrV(t) : t \in ItemTexts} \cup {IntV(n) : n \in ItemInts}
        \cup {CellV(c) : c \in ItemCells}

InitRow ==
    /\ input = StrV(<<>>)
    /\ cell = Cell_new(input)
    /\ calls = <<>>
    /\ got = None
    /\ coll = <<>>
    /\ row = <<>>
    /\ pc = "collecting"

\* the caller puts one more item into the collection
Push(v) ==
    /\ pc = "collecting"
    /\ Len(coll) < MaxRow
    /\ IF coll = <<>> THEN TRUE ELSE coll[1].kind = v.kind
    /\ coll' = Append(coll, v)
    /\ UNCHANGED <<input, cell, calls, got, row, pc>>

\* let row = coll.to_cells();
ToCellsStep ==
    /\ pc = "collecting"
    /\ row' = ToCells(coll)
    /\ pc' = "converted"
    /\ UNCHANGED <<input, cell, calls, got, coll>>

NextRow ==
    \/ \E v \in Items : Push(v)
    \/ ToCellsStep

SpecRow == InitRow /\ [][NextRow]_vars

---------------------------------------------------------------------------
(* Vocabulary of the properties *)

Fields == {"content", "delimiter", "alignment", "fg", "bg", "attributes"}

\* the text the cell was constructed from
Source == ToString(input)

\* c and d agree on every field but f
SameExcept(c, d, f) == \A g \in Fields \ {f} : c[g] = d[g]

\* c and d agree on all six fields
SameCell(c, d) == \A g \in Fields : c[g] = d[g]

\* the positions of the newlines of s
NewlinesOf(s) == {p \in 1..Len(s) : s[p] = NL}

\* the position of the k-th newline of s; 0 for k = 0 and Len(s) + 1 past the last
NthNewline(s, k) ==
    IF k = 0 THEN 0
    ELSE IF k > Cardinality(NewlinesOf(s)) THEN Len(s) + 1
    ELSE CHOOSE p \in NewlinesOf(s) :
            Cardinality({q \in NewlinesOf(s) : q <= p}) = k

\* the text of s strictly between its (k-1)-th and its k-th newline
Segment(s, k) == SubSeq(s, NthNewline(s, k - 1) + 1, NthNewline(s, k) - 1)

\* Option: the argument of the last call of method op in the log
LastArg(log, op) ==
    LET at == {i \in 1..Len(log) : log[i].op = op}
    IN  IF at = {} THEN None
        ELSE Some(log[CHOOSE i \in at : \A j \in at : j <= i].arg)

\* every attribute passed to add_attribute / add_attributes, in call order
RECURSIVE AttrsPassed(_)
AttrsPassed(log) ==
    IF log = <<>> THEN <<>>
    ELSE LET c == log[Len(log)]
             before == AttrsPassed(SubSeq(log, 1, Len(log) - 1))
         IN  IF c.op = "add_attribute" THEN before \o <<c.arg>>
             ELSE IF c.op = "add_attributes" THEN before \o c.arg
             ELSE before

\* add_attribute called once per element of l, in order
RECURSIVE AddEach(_, _)
AddEach(c, l) ==
    IF l = <<>> THEN c
    ELSE AddEach(add_attribute(c, Head(l)), Tail(l))

\* the field a builder method writes
FieldOf(op) ==
    CASE op = "set_delimiter" -> "delimiter"
      [] op = "set_alignment" -> "alignment"
      [] op = "fg" -> "fg"
      [] op = "bg" -> "bg"
      [] op = "add_attribute" -> "attributes"
      [] op = "add_attributes" -> "attributes"

\* the builder method a log entry names, applied to c
Apply(c, call) ==
    CASE call.op = "set_delimiter" -> set_delimiter(c, call.arg)
      [] call.op = "set_alignment" -> set_alignment(c, call.arg)
      [] call.op = "fg" -> fg(c, call.arg)
      [] call.op = "bg" -> bg(c, call.arg)
      [] call.op = "add_attribute" -> add_attribute(c, call.arg)
      [] call.op = "add_attributes" -> add_attributes(c, call.arg)

RECURSIVE Replay(_, _)
Replay(c, log) ==
    IF log = <<>> THEN c ELSE Replay(Apply(c, Head(log)), Tail(log))

\* the log with its i-th and (i+1)-th calls exchanged
Swapped(log, i) == [log EXCEPT ![i] = log[i + 1], ![i + 1] = log[i]]

\* a well-formed Cell value
IsCell(c) ==
    /\ DOMAIN c = Fields
    /\ c.content \in Seq(Seq(STRING))
    /\ \A f \in {"delimiter", "alignment", "fg", "bg"} :
          c[f] \in Seq(STRING) /\ Len(c[f]) <= 1
    /\ c.attributes \in Seq(STRING)

---------------------------------------------------------------------------
(* Properties *)

\* C1: round trip.  get_content() of a cell returns exactly the text the cell
\* was constructed from: joining the stored lines with '\n' inverts the split
\* on '\n', for the empty text and for consecutive, leading and trailing
\* newlines alike.
RoundTrip ==
    /\ Join(Split(Source)) = Source
    /\ get_content(Cell_new(input)) = Source
    /\ got # None => got = Some(Source)

RoundTripWitness ==
    /\ got # None
    /\ input.kind = "str"
    /\ input.chars = <<NL, NL, "a">>
    /\ got[1] = <<NL, NL, "a">>

\* C2: content is never empty; it has one line more than the source text has
\* newlines, no line holds a newline, the k-th line is exactly the text
\* between the (k-1)-th and the k-th newline, and the empty text gives one
\* empty line.
ContentLines ==
    /\ Len(cell.content) >= 1
    /\ Len(cell.content) = 1 + Cardinality(NewlinesOf(Source))
    /\ \A k \in 1..Len(cell.content) :
          /\ \A j \in 1..Len(cell.content[k]) : cell.content[k][j] # NL
          /\ cell.content[k] = Segment(Source, k)
    /\ Source = <<>> => cell.content = << <<>> >>

ContentLinesWitness ==
    /\ Len(calls) >= 2
    /\ input.kind = "str"
    /\ input.chars = <<NL, NL, "a">>
    /\ cell.content = << <<>>, <<>>, <<"a">> >>

\* C3: to_cell of an already-built cell is that cell, in all six fields: the
\* content is not split again and no style field is reset.
ToCellIdentity ==
    /\ SameCell(ToCell(CellV(cell)), cell)
    /\ ToCell(CellV(cell)).content = Split(Source)
    /\ ToCell(CellV(cell)).delimiter = LastArg(calls, "set_delimiter")
    /\ ToCell(CellV(cell)).attributes = AttrsPassed(calls)

ToCellIdentityWitness ==
    /\ Len(cell.content) > 1
    /\ cell.delimiter # None
    /\ cell.attributes # <<>>

\* C4: to_cells returns as many cells as the collection has items, the i-th
\* cell being to_cell of the i-th item; the empty collection gives the empty
\* sequence, and [1, 2, 3] gives the contents "1", "2", "3" in that order.
OrderPreserved ==
    pc = "converted" =>
        /\ Len(row) = Len(coll)
        /\ \A i \in 1..Len(coll) : row[i] = ToCell(coll[i])
        /\ coll = <<>> => row = <<>>
        /\ (Len(coll) = 3 /\ coll[1].kind = "int"
              /\ <<coll[1].n, coll[2].n, coll[3].n>> = <<1, 2, 3>>)
            => <<get_content(row[1]), get_content(row[2]), get_content(row[3])>>
                 = << <<"1">>, <<"2">>, <<"3">> >>

OrderPreservedWitness ==
    /\ pc = "converted"
    /\ Len(coll) = 3
    /\ coll[1].kind = "int"
    /\ <<coll[1].n, coll[2].n, coll[3].n>> = <<1, 2, 3>>
    /\ Len(row) = 3

\* C5: delimiter, alignment, fg and bg each hold the argument of the last
\* call of their own setter, or None when it was never called; a second call
\* of a setter leaves only its own argument, and repeating a call changes
\* nothing.
OverwriteSemantics ==
    /\ cell.delimiter = LastArg(calls, "set_delimiter")
    /\ cell.alignment = LastArg(calls, "set_alignment")
    /\ cell.fg = LastArg(calls, "fg")
    /\ cell.bg = LastArg(calls, "bg")
    /\ \A a, b \in Delimiters :
          set_delimiter(set_delimiter(cell, a), b) = set_delimiter(cell, b)
    /\ \A a, b \in Alignments :
          set_alignment(set_alignment(cell, a), b) = set_alignment(cell, b)
    /\ \A a, b \in Colors :
          /\ fg(fg(cell, a), b) = fg(cell, b)
          /\ bg(bg(cell, a), b) = bg(cell, b)

OverwriteWitness ==
    /\ Len(calls) >= 2
    /\ calls[1].op = "set_alignment"
    /\ calls[2].op = "set_alignment"
    /\ calls[1].arg = "Left"
    /\ calls[2].arg = "Center"
    /\ cell.alignment = Some("Center")

\* C6: attributes is the concatenation, in call order, of every attribute
\* passed to add_attribute and add_attributes, duplicates kept;
\* add_attributes(l) gives the cell that add_attribute gives when called once
\* per element of l, and add_attributes([]) changes nothing.
AttributeAccumulation ==
    /\ cell.attributes = AttrsPassed(calls)
    /\ \A l \in AttrLists : add_attributes(cell, l) = AddEach(cell, l)
    /\ add_attributes(cell, <<>>) = cell

AttributeAccumulationWitness ==
    /\ Len(calls) >= 2
    /\ calls[1].op = "add_attribute"
    /\ calls[2].op = "add_attributes"
    /\ cell.attributes = <<"Italic", "Italic", "Italic">>

\* C7: for a displayable value that is not a Cell, to_cell and Cell::from
\* both give the cell Cell::new gives; turning the value into text before
\* Cell::new is called leaves the lines as they are.
DefaultConversion ==
    /\ SameCell(ToCell(input), Cell_new(input))
    /\ SameCell(From(input), Cell_new(input))
    /\ ToCell(input).content = Split(Source)
    /\ calls = <<>> => SameCell(cell, Cell_new(input))

DefaultConversionWitness ==
    /\ calls = <<>>
    /\ input.kind = "str"
    /\ input.chars = <<"a", NL, "a">>
    /\ cell.content = << <<"a">>, <<"a">> >>

\* C8: a cell carries no override it was not given: a fresh cell has
\* delimiter, alignment, fg and bg None and no attributes, and a field whose
\* setter was never called is still None (empty, for attributes).
NoOverridesUntilSet ==
    /\ Cell_new(input).delimiter = None
    /\ Cell_new(input).alignment = None
    /\ Cell_new(input).fg = None
    /\ Cell_new(input).bg = None
    /\ Cell_new(input).attributes = <<>>
    /\ calls = <<>> =>
          /\ \A f \in {"delimiter", "alignment", "fg", "bg"} : cell[f] = None
          /\ cell.attributes = <<>>
    /\ \A op \in {"set_delimiter", "set_alignment", "fg", "bg"} :
          (\A i \in 1..Len(calls) : calls[i].op # op) => cell[FieldOf(op)] = None
    /\ (\A i \in 1..Len(calls) : FieldOf(calls[i].op) # "attributes")
          => cell.attributes = <<>>

NoOverridesWitness ==
    /\ Len(calls) >= 2
    /\ cell.delimiter = Some("-")
    /\ cell.alignment = Some("Center")
    /\ cell.fg = None
    /\ cell.bg = None
    /\ cell.attributes = <<>>

\* C9: construction and every builder method return a cell for every
\* argument and are enabled in every state (up to the length of chain that is
\* explored); a delimiter is taken as it is, also one that occurs in the
\* content.
Totality ==
    /\ IsCell(cell)
    /\ IsCell(Cell_new(input)) /\ IsCell(From(input)) /\ IsCell(ToCell(input))
    /\ \A d \in Delimiters :
          /\ IsCell(set_delimiter(cell, d))
          /\ set_delimiter(cell, d).delimiter = Some(d)
    /\ \A a \in Alignments : IsCell(set_alignment(cell, a))
    /\ \A c \in Colors : IsCell(fg(cell, c)) /\ IsCell(bg(cell, c))
    /\ \A a \in Attributes : IsCell(add_attribute(cell, a))
    /\ \A l \in AttrLists : IsCell(add_attributes(cell, l))
    /\ Len(calls) < MaxCalls =>
          /\ \A d \in Delimiters : ENABLED SetDelimiter(d)
          /\ \A a \in Alignments : ENABLED SetAlignment(a)
          /\ \A c \in Colors : ENABLED Fg(c) /\ ENABLED Bg(c)
          /\ \A a \in Attributes : ENABLED AddAttribute(a)
          /\ \A l \in AttrLists : ENABLED AddAttributes(l)
    /\ Fresh => \A v \in DisplayValues : ENABLED New(v)

TotalityWitness ==
    /\ cell.delimiter = Some("a")
    /\ \E k \in 1..Len(cell.content) :
          \E j \in 1..Len(cell.content[k]) : cell.content[k][j] = "a"

\* C10: a builder method writes its own field and leaves the other five as
\* they were; content is never written, so get_content() returns the source
\* text after any chain; two adjacent calls that write different fields can
\* be exchanged without changing the cell.
MutatorFrame ==
    /\ \A d \in Delimiters : SameExcept(set_delimiter(cell, d), cell, "delimiter")
    /\ \A a \in Alignments : SameExcept(set_alignment(cell, a), cell, "alignment")
    /\ \A c \in Colors :
          /\ SameExcept(fg(cell, c), cell, "fg")
          /\ SameExcept(bg(cell, c), cell, "bg")
    /\ \A a \in Attributes : SameExcept(add_attribute(cell, a), cell, "attributes")
    /\ \A l \in AttrLists : SameExcept(add_attributes(cell, l), cell, "attributes")
    /\ get_content(cell) = Source
    /\ got # None => got = Some(Source)
    /\ \A i \in 1..(Len(calls) - 1) :
          FieldOf(calls[i].op) # FieldOf(calls[i + 1].op)
              => Replay(Cell_new(input), Swapped(calls, i)) = cell

MutatorFrameWitness ==
    /\ Len(calls) >= 2
    /\ calls[1].op = "bg"
    /\ calls[2].op = "set_delimiter"
    /\ got # None
    /\ Len(cell.content) > 1

=============================================================================
